---- MODULE Spec2Model ----
(***************************************************************************)
(* Model of the gotify -> ntfy adapter (src/app.py).                       *)
(*                                                                         *)
(* Text (Python str) is a sequence of Unicode code points, bytes are       *)
(* sequences of 0..255.  A JSON / form value is a record [k, s, n]:        *)
(*   k = "none"  : key absent or JSON null (Python None)                   *)
(*   k = "str"   : the text s                                              *)
(*   k = "int"   : the integer n                                           *)
(*   k = "bool"  : n = 1 is True, n = 0 is False                           *)
(*   k = "float" : the finite float n / 10 (one decimal place)             *)
(*   k = "inf"   : float infinity                                          *)
(*   k = "list"  : [] when n = 0, [1] when n = 1                           *)
(*   k = "dict"  : {} when n = 0, {'a': 1} when n = 1                      *)
(***************************************************************************)
EXTENDS Integers, Sequences, FiniteSets, TLC

\* ---------------------------------------------------------------- bounds
\* JSON integer priorities range over -PrioBound .. PrioBound
PrioBound == 9

\* ------------------------------------------------------- value constructors
V(k, s, n) == [k |-> k, s |-> s, n |-> n]
None == V("none", <<>>, 0)
S(s) == V("str", s, 0)
I(n) == V("int", <<>>, n)
B(n) == V("bool", <<>>, n)
F(n) == V("float", <<>>, n)
Inf == V("inf", <<>>, 0)
L(n) == V("list", <<>>, n)
Dict(n) == V("dict", <<>>, n)

\* ------------------------------------------------------------ text helpers
Abs(n) == IF n < 0 THEN -n ELSE n

\* characters str.strip() and int() treat as whitespace
IsSpace(c) == c \in ((9..13) \cup (28..32) \cup {133, 160})

RECURSIVE LStrip(_)
LStrip(s) == IF s # <<>> /\ IsSpace(Head(s)) THEN LStrip(Tail(s)) ELSE s

RECURSIVE RStrip(_)
RStrip(s) ==
  IF s # <<>> /\ IsSpace(s[Len(s)]) THEN RStrip(SubSeq(s, 1, Len(s) - 1)) ELSE s

\* str.strip()
Strip(s) == RStrip(LStrip(s))

\* decimal repr of a natural number
RECURSIVE NatStr(_)
NatStr(n) == IF n < 10 THEN <<48 + n>> ELSE NatStr(n \div 10) \o <<48 + (n % 10)>>

\* str(int)
IntStr(n) == IF n < 0 THEN <<45>> \o NatStr(-n) ELSE NatStr(n)

\* Unicode decimal digits (category Nd): ASCII 0-9 and Arabic-Indic 0-9
IsDecimalChar(c) == c \in ((48..57) \cup (1632..1641))
DecimalValue(c) == IF c \in 48..57 THEN c - 48 ELSE c - 1632

\* characters for which str.isdigit() is true: decimals and superscript digits
IsDigitChar(c) == IsDecimalChar(c) \/ c \in {178, 179, 185}

\* str.isdigit()
isdigit(s) == s # <<>> /\ \A i \in 1..Len(s) : IsDigitChar(s[i])

\* str(v) for the values of the model
str(v) ==
  CASE v.k = "none"  -> <<78, 111, 110, 101>>                 \* "None"
    [] v.k = "str"   -> v.s
    [] v.k = "int"   -> IntStr(v.n)
    [] v.k = "bool"  -> IF v.n = 1 THEN <<84, 114, 117, 101>>  \* "True"
                        ELSE <<70, 97, 108, 115, 101>>         \* "False"
    [] v.k = "float" -> (IF v.n < 0 THEN <<45>> ELSE <<>>)
                        \o NatStr(Abs(v.n) \div 10) \o <<46>> \o NatStr(Abs(v.n) % 10)
    [] v.k = "inf"   -> <<105, 110, 102>>                      \* "inf"
    [] v.k = "list"  -> IF v.n = 0 THEN <<91, 93>> ELSE <<91, 49, 93>>
    [] v.k = "dict"  -> IF v.n = 0 THEN <<123, 125>>
                        ELSE <<123, 39, 97, 39, 58, 32, 49, 125>>

\* Python truthiness
Truthy(v) ==
  CASE v.k = "none"  -> FALSE
    [] v.k = "str"   -> v.s # <<>>
    [] v.k = "inf"   -> TRUE
    [] OTHER         -> v.n # 0

\* digits of an int() literal: decimals, single underscores between them
RECURSIVE DigitsValue(_, _)
DigitsValue(s, acc) ==
  IF s = <<>> THEN [ok |-> TRUE, val |-> acc]
  ELSE IF IsDecimalChar(Head(s)) THEN DigitsValue(Tail(s), 10 * acc + DecimalValue(Head(s)))
  ELSE IF Head(s) = 95 /\ Len(s) > 1 /\ IsDecimalChar(s[2]) THEN DigitsValue(Tail(s), acc)
  ELSE [ok |-> FALSE, val |-> 0]

\* int(str): strip, optional sign, digits; ok = FALSE models ValueError
IntOfText(s) ==
  LET t == Strip(s)
      signed == t # <<>> /\ Head(t) \in {43, 45}
      body == IF signed THEN Tail(t) ELSE t
      d == IF body # <<>> /\ IsDecimalChar(Head(body)) THEN DigitsValue(body, 0)
           ELSE [ok |-> FALSE, val |-> 0]
  IN IF d.ok /\ signed /\ Head(t) = 45 THEN [ok |-> TRUE, val |-> -d.val] ELSE d

\* int(v): ok = FALSE models the exception int() raises
int(v) ==
  CASE v.k = "int"   -> [ok |-> TRUE, val |-> v.n]
    [] v.k = "bool"  -> [ok |-> TRUE, val |-> v.n]
    [] v.k = "float" -> [ok |-> TRUE,
                         val |-> IF v.n < 0 THEN -(Abs(v.n) \div 10) ELSE v.n \div 10]
    [] v.k = "str"   -> IntOfText(v.s)
    [] OTHER         -> [ok |-> FALSE, val |-> 0]

\* str.encode("utf-8") of one code point; surrogates cannot be encoded
Utf8Char(c) ==
  IF c < 128 THEN <<c>>
  ELSE IF c < 2048 THEN <<192 + (c \div 64), 128 + (c % 64)>>
  ELSE IF c < 65536 THEN <<224 + (c \div 4096), 128 + ((c \div 64) % 64), 128 + (c % 64)>>
  ELSE <<240 + (c \div 262144), 128 + ((c \div 4096) % 64),
         128 + ((c \div 64) % 64), 128 + (c % 64)>>

IsSurrogate(c) == c \in 55296..57343

RECURSIVE Utf8Bytes(_)
Utf8Bytes(s) == IF s = <<>> THEN <<>> ELSE Utf8Char(Head(s)) \o Utf8Bytes(Tail(s))

\* str.encode("utf-8"): ok = FALSE models UnicodeEncodeError
encode(s) ==
  IF \E i \in 1..Len(s) : IsSurrogate(s[i]) THEN [ok |-> FALSE, bytes |-> <<>>]
  ELSE [ok |-> TRUE, bytes |-> Utf8Bytes(s)]

\* one character of the base64 alphabet
B64Char(i) ==
  IF i < 26 THEN 65 + i
  ELSE IF i < 52 THEN 97 + (i - 26)
  ELSE IF i < 62 THEN 48 + (i - 52)
  ELSE IF i = 62 THEN 43 ELSE 47

\* base64.b64encode(...).decode("ascii")
RECURSIVE b64encode(_)
b64encode(b) ==
  IF b = <<>> THEN <<>>
  ELSE IF Len(b) = 1 THEN
    <<B64Char(b[1] \div 4), B64Char((b[1] % 4) * 16), 61, 61>>
  ELSE IF Len(b) = 2 THEN
    <<B64Char(b[1] \div 4), B64Char((b[1] % 4) * 16 + (b[2] \div 16)),
      B64Char((b[2] % 16) * 4), 61>>
  ELSE
    <<B64Char(b[1] \div 4), B64Char((b[1] % 4) * 16 + (b[2] \div 16)),
      B64Char((b[2] % 16) * 4 + (b[3] \div 64)), B64Char(b[3] % 64)>>
    \o b64encode(SubSeq(b, 4, Len(b)))

\* str.lower() on the ASCII letters the model uses
RECURSIVE lower(_)
lower(s) ==
  IF s = <<>> THEN <<>>
  ELSE <<IF Head(s) \in 65..90 THEN Head(s) + 32 ELSE Head(s)>> \o lower(Tail(s))

\* Python's "needle in hay" on text
Contains(needle, hay) ==
  \E i \in 0..(Len(hay) - Len(needle)) : SubSeq(hay, i + 1, i + Len(needle)) = needle

\* ------------------------------------------------------------ named texts
TxtT == <<84>>                      \* "T"
TxtTpad == <<32, 84, 32>>           \* " T "
TxtBlank == <<32>>                  \* " "
TxtM == <<77>>                      \* "M"
TxtAccent == <<233>>                \* "e" with acute accent, two bytes in UTF-8
TxtSurrogate == <<55296>>           \* lone surrogate, as json.loads yields for "\ud800"
TxtExtras == <<44, 101, 120, 116, 114, 97, 115>>   \* ",extras"
TxtBasic == <<66, 97, 115, 105, 99, 32>>           \* "Basic "
TxtJson == <<97, 112, 112, 108, 105, 99, 97, 116, 105, 111, 110, 47, 106, 115, 111, 110>>
TxtJsonUpper == <<65, 112, 112, 108, 105, 99, 97, 116, 105, 111, 110, 47, 74, 83, 79, 78>>
TxtFormType == <<102, 111, 114, 109>>              \* "form", stands for a form content type
TokK == <<107>>                     \* token "k"
TokZ == <<122>>                     \* token "z"
TopA == <<97>>                      \* topic "a"
TopD == <<100>>                     \* topic "d"
TopE == <<101>>                     \* topic "e"

\* ----------------------------------------------------------- configuration
\* the values the module globals of lines 21-45 can hold after start-up
Usernames == {<<>>, <<117>>}                 \* "", "u"
Passwords == {<<>>, <<112, 58, 119>>}        \* "", "p:w"
Prefixes == {<<>>, <<71, 32>>}               \* "", "G "
TokenMaps == {<<>>, TokK :> TopA, (TokK :> TopA) @@ (<<>> :> TopE)}

Configs ==
  [NTFY_SERVER : {<<104>>},                  \* "h"
   NTFY_USERNAME : Usernames,
   NTFY_PASSWORD : Passwords,
   DEFAULT_TOPIC : {TopD},
   DEFAULT_TAGS : {<<103, 44, 97>>},         \* "g,a"
   TITLE_PREFIX : Prefixes,
   TOKEN_TOPIC_MAP : TokenMaps]

\* ------------------------------------------------------------------ inputs
\* raw priority values a JSON body can carry
JsonPriorities ==
  {I(n) : n \in (-PrioBound)..PrioBound} \cup {I(100), I(-100)}
  \cup {None, B(1), B(0), F(59), F(-5), F(80), Inf, L(1), Dict(0)}
  \cup {S(<<>>), S(<<56>>), S(<<32, 53, 32>>), S(<<45, 51>>), S(<<43, 55>>),
        S(<<97, 98>>), S(<<53, 46, 53>>), S(<<178>>), S(<<1635>>),
        S(<<49, 95, 48>>), S(<<48, 48, 55>>)}

\* raw priority values a form body can carry (absent or text)
FormPriorities == {v \in JsonPriorities : v.k \in {"none", "str"}}

FewPriorities == {None, I(8), I(-5), S(<<178>>)}

JsonTitles == {None, S(<<>>), S(TxtT), S(TxtTpad), S(TxtBlank), I(0), I(5)}
JsonMessages == {None, S(TxtM), S(TxtAccent), S(TxtSurrogate), L(0), L(1)}
JsonExtras == {None, Dict(0), Dict(1), L(1), S(TxtT)}

Req(hasToken, token, ctype, parse, t, m, p, e) ==
  [hasToken |-> hasToken, token |-> token, content_type |-> ctype, parse |-> parse,
   title |-> t, message |-> m, priority |-> p, extras |-> e]

\* parse = "object": the body is a JSON object with these members
\* parse = "value": the body is valid JSON but not an object
\* parse = "malformed": the body is not valid JSON
\* parse = "form": the fields request.form() yields
Requests ==
  {Req(TRUE, TokK, TxtJson, "object", S(TxtT), S(TxtM), p, None) : p \in JsonPriorities}
  \cup {Req(TRUE, TokK, TxtJsonUpper, "object", t, m, p, e) :
          t \in JsonTitles, m \in JsonMessages, p \in FewPriorities, e \in JsonExtras}
  \cup {Req(h, k, TxtJson, "object", t, S(TxtM), I(8), None) :
          h \in BOOLEAN, k \in {<<>>, TokK, TokZ}, t \in {None, S(TxtT)}}
  \cup {Req(h, k, TxtJson, "object", None, None, None, None) :
          h \in BOOLEAN, k \in {<<>>, TokK}}
  \cup {Req(TRUE, TokZ, c, "form", t, m, p, None) :
          c \in {TxtFormType, <<>>}, t \in {None, S(TxtT)}, m \in {None, S(<<>>), S(TxtM)},
          p \in FormPriorities}
  \cup {Req(TRUE, TokK, TxtJson, x, None, None, None, None) : x \in {"value", "malformed"}}

\* what the destination answers: a status code and a body text
UpstreamAnswers ==
  {<<200, <<111, 107>> >>, <<204, <<>> >>, <<399, <<>> >>,       \* 200 "ok", 204, 399
   <<400, <<110, 111>> >>, <<403, <<>> >>}                       \* 400 "no", 403

\* --------------------------------------------------------------- the state
VARIABLES
  config,        \* the module globals of lines 21-45, fixed at start-up
  pc,            \* "idle" (no request yet), "awaiting" (inside requests.post),
                 \* "responded" (the handler has ended)
  request,       \* the request being handled
  topic, title, message, priority_val, extras,   \* locals of gotify_message
  outbound,      \* the outbound calls made for the current request
  upstream,      \* what requests.post came back with
  response       \* the response sent to the caller

vars == <<config, pc, request, topic, title, message, priority_val, extras,
          outbound, upstream, response>>

NoRequest == Req(FALSE, <<>>, <<>>, "form", None, None, None, None)
NoResponse == [status |-> 0, body |-> <<>>]
Upstream(kind, status_code, text) == [kind |-> kind, status_code |-> status_code, text |-> text]
NoUpstream == Upstream("none", 0, <<>>)

Init ==
  /\ config \in Configs
  /\ pc = "idle"
  /\ request = NoRequest
  /\ topic = <<>>
  /\ title = <<>>
  /\ message = <<>>
  /\ priority_val = None
  /\ extras = None
  /\ outbound = <<>>
  /\ upstream = NoUpstream
  /\ response = NoResponse

\* ----------------------------------------------------------------- helpers
\* gotify_priority_to_ntfy with the first band cut at p < 0
gotify_priority_to_ntfy_strict(p) ==
  LET p_int == int(p)
  IN IF ~p_int.ok THEN <<51>>
     ELSE IF p_int.val < 0 THEN <<49>>
     ELSE IF p_int.val <= 2 THEN <<50>>
     ELSE IF p_int.val <= 4 THEN <<51>>
     ELSE IF p_int.val <= 7 THEN <<52>>
     ELSE <<53>>

gotify_priority_to_ntfy(p) ==
  LET p_int == int(p)
  IN IF ~p_int.ok THEN <<51>>            \* "3"
     ELSE IF p_int.val <= 0 THEN <<49>>  \* "1"
     ELSE IF p_int.val <= 2 THEN <<50>>  \* "2"
     ELSE IF p_int.val <= 4 THEN <<51>>  \* "3"
     ELSE IF p_int.val <= 7 THEN <<52>>  \* "4"
     ELSE <<53>>                         \* "5"

\* ntfy_auth_header deciding on the password instead of the username
ntfy_auth_header_on_password ==
  IF config.NTFY_PASSWORD = <<>> THEN <<>>
  ELSE "Authorization" :>
         (TxtBasic \o b64encode(encode(config.NTFY_USERNAME \o <<58>>
                                       \o config.NTFY_PASSWORD).bytes))

ntfy_auth_header ==
  IF config.NTFY_USERNAME = <<>> THEN <<>>
  ELSE "Authorization" :>
         (TxtBasic \o b64encode(encode(config.NTFY_USERNAME \o <<58>>
                                       \o config.NTFY_PASSWORD).bytes))

\* the headers publish_to_ntfy builds
PublishHeaders(t, priority, tags) ==
  ntfy_auth_header
  @@ (IF t # <<>> THEN "Title" :> t ELSE <<>>)
  @@ ("Priority" :> priority) @@ ("Tags" :> tags)

\* the rejection test written with > instead of >=
Rejected_above(status_code) == status_code > 400

\* r.status_code >= 400
Rejected(status_code) == status_code >= 400

\* r.text[:200]
ExcerptLen == 200
Excerpt(text) == SubSeq(text, 1, IF Len(text) < ExcerptLen THEN Len(text) ELSE ExcerptLen)

\* request.query_params.get("token", "")
TokenOf(r) == IF r.hasToken THEN r.token ELSE <<>>

\* the lookup skipped for an empty token
TopicOf_nonempty(token) ==
  IF token # <<>> /\ token \in DOMAIN config.TOKEN_TOPIC_MAP
  THEN config.TOKEN_TOPIC_MAP[token]
  ELSE config.DEFAULT_TOPIC

\* TOKEN_TOPIC_MAP.get(token, DEFAULT_TOPIC)
TopicOf(token) ==
  IF token \in DOMAIN config.TOKEN_TOPIC_MAP THEN config.TOKEN_TOPIC_MAP[token]
  ELSE config.DEFAULT_TOPIC

\* "application/json" in content_type
IsJson(r) == Contains(TxtJson, lower(r.content_type))

\* str(payload.get(key) or "")
TextField(v) == IF Truthy(v) THEN str(v) ELSE <<>>

\* extras_val if isinstance(extras_val, dict) else None
ExtrasField(v) == IF v.k = "dict" THEN v ELSE None

\* the content test with the second "not" dropped
MissingContent_title(t, m) == m = <<>> /\ t # <<>>

\* not message and not title
MissingContent(t, m) == m = <<>> /\ t = <<>>

\* tags = DEFAULT_TAGS, with ",extras" appended if extras
TagsFor(e) ==
  IF Truthy(e) THEN config.DEFAULT_TAGS \o TxtExtras ELSE config.DEFAULT_TAGS

\* full_title without .strip()
FullTitle_unstripped(t) ==
  IF t # <<>> THEN config.TITLE_PREFIX \o t ELSE config.TITLE_PREFIX

\* full_title
FullTitle(t) ==
  IF t # <<>> THEN Strip(config.TITLE_PREFIX \o t) ELSE Strip(config.TITLE_PREFIX)

\* the body without the fallback to the title
PublishBody_message(t, m) == m

\* message if message else title
PublishBody(t, m) == IF m # <<>> THEN m ELSE t

\* int(priority_val) if str(priority_val).isdigit() else 0
ResponsePriority(p) ==
  IF isdigit(str(p)) THEN int(p) ELSE [ok |-> TRUE, val |-> 0]

Raised(exc) == [status |-> 500, body |-> [error |-> exc]]
HTTPException(status_code, detail) == [status |-> status_code, body |-> [detail |-> detail]]

\* ----------------------------------------------------------------- actions
\* POST /message, from its start to the requests.post call or to an early end
gotify_message(r) ==
  /\ pc = "idle"
  /\ request' = r
  /\ topic' = TopicOf(TokenOf(r))
  /\ LET json == IsJson(r)
         parsed == IF json THEN r.parse = "object" ELSE TRUE
         field(name) == IF json \/ r.parse = "form" THEN r[name] ELSE None
         t == IF parsed THEN TextField(field("title")) ELSE <<>>
         m == IF parsed THEN TextField(field("message")) ELSE <<>>
         p == IF parsed THEN field("priority") ELSE None
         e == IF parsed /\ json THEN ExtrasField(r.extras) ELSE None
         data == encode(PublishBody(t, m))
         call == [url |-> config.NTFY_SERVER \o <<47>> \o TopicOf(TokenOf(r)),
                  headers |-> PublishHeaders(FullTitle(t), gotify_priority_to_ntfy(p),
                                             TagsFor(e)),
                  data |-> data.bytes]
     IN /\ title' = t
        /\ message' = m
        /\ priority_val' = p
        /\ extras' = e
        /\ IF json /\ r.parse \in {"malformed", "form"}
           THEN /\ pc' = "responded"
                /\ outbound' = <<>>
                /\ response' = Raised("JSONDecodeError")
           ELSE IF json /\ r.parse = "value"
           THEN /\ pc' = "responded"
                /\ outbound' = <<>>
                /\ response' = HTTPException(400, <<"Invalid JSON payload">>)
           ELSE IF MissingContent(t, m)
           THEN /\ pc' = "responded"
                /\ outbound' = <<>>
                /\ response' = HTTPException(400, <<"Missing title/message">>)
           ELSE IF ~data.ok
           THEN /\ pc' = "responded"
                /\ outbound' = <<>>
                /\ response' = Raised("UnicodeEncodeError")
           ELSE /\ pc' = "awaiting"
                /\ outbound' = <<call>>
                /\ response' = NoResponse
  /\ UNCHANGED <<config, upstream>>

\* requests.post returns r; publish_to_ntfy and gotify_message run to their end
ntfy_responds(status_code, text) ==
  /\ pc = "awaiting"
  /\ pc' = "responded"
  /\ upstream' = Upstream("response", status_code, text)
  /\ response' =
       IF Rejected(status_code)
       THEN HTTPException(502, <<"ntfy returned", status_code, Excerpt(text)>>)
       ELSE LET prio == ResponsePriority(priority_val)
            IN IF ~prio.ok THEN Raised("ValueError")
               ELSE [status |-> 200,
                     body |-> [id |-> 0, appid |-> 0, title |-> title,
                               message |-> message, priority |-> prio.val]]
  /\ UNCHANGED <<config, request, topic, title, message, priority_val, extras, outbound>>

\* requests.post raises requests.RequestException (unreachable, timeout)
ntfy_unreachable ==
  /\ pc = "awaiting"
  /\ pc' = "responded"
  /\ upstream' = Upstream("exception", 0, <<>>)
  /\ response' = HTTPException(502, <<"Failed to reach ntfy">>)
  /\ UNCHANGED <<config, request, topic, title, message, priority_val, extras, outbound>>

Next ==
  \/ \E r \in Requests : gotify_message(r)
  \/ \E answer \in UpstreamAnswers : ntfy_responds(answer[1], answer[2])
  \/ ntfy_unreachable

Spec == Init /\ [][Next]_vars

\* ------------------------------------------------------------------ claims
\* the outbound call of the current request, when there is one
Call == outbound[1]
Sent == outbound # <<>>

\* C1: the Priority header is the banding of the coerced priority: "1" for
\* p <= 0, "2" for 1..2, "3" for 3..4, "4" for 5..7, "5" for p >= 8, and "3"
\* for every value int() rejects; it is always one of "1".."5".
C1_PriorityBanding ==
  Sent =>
    LET c == int(priority_val)
        out == Call.headers["Priority"]
    IN /\ out \in {<<49>>, <<50>>, <<51>>, <<52>>, <<53>>}
       /\ c.ok => /\ (out = <<49>>) = (c.val <= 0)
                  /\ (out = <<50>>) = (1 <= c.val /\ c.val <= 2)
                  /\ (out = <<51>>) = (3 <= c.val /\ c.val <= 4)
                  /\ (out = <<52>>) = (5 <= c.val /\ c.val <= 7)
                  /\ (out = <<53>>) = (c.val >= 8)
       /\ ~c.ok => out = <<51>>
       /\ priority_val \in {I(-5), I(0)} => out = <<49>>
       /\ priority_val \in {I(1), I(2)} => out = <<50>>
       /\ priority_val \in {I(3), I(4)} => out = <<51>>
       /\ priority_val \in {I(5), I(7)} => out = <<52>>
       /\ priority_val \in {I(8), I(100), S(<<56>>)} => out = <<53>>
       /\ priority_val \in {None, S(<<>>), S(<<97, 98>>), S(<<53, 46, 53>>),
                            S(<<178>>), Inf, L(1), Dict(0)} => out = <<51>>

C1_Witness ==
  /\ Sent
  /\ priority_val = S(<<32, 53, 32>>)
  /\ Call.headers["Priority"] = <<52>>

\* the body was read without an error: form fields, or valid JSON
BodyParsed == pc # "idle" /\ (IsJson(request) => request.parse \in {"object", "value"})

\* C2: a request whose title and message are both empty after normalization is
\* answered 400 and no outbound call is made for it.
C2_MissingContent400 ==
  (BodyParsed /\ title = <<>> /\ message = <<>>) =>
    /\ pc = "responded"
    /\ response.status = 400
    /\ outbound = <<>>
    /\ upstream = NoUpstream

C2_Witness ==
  /\ BodyParsed
  /\ request.parse = "object"
  /\ request.title = S(<<>>)
  /\ request.message = L(0)
  /\ response.status = 400

DeliveryFailed ==
  \/ upstream.kind = "exception"
  \/ upstream.kind = "response" /\ upstream.status_code >= 400

\* C3: a failed delivery (exception, or upstream status >= 400) is answered 502
\* after exactly one outbound call, and no request makes more than one call.
C3_NoRetry502 ==
  /\ Len(outbound) <= 1
  /\ DeliveryFailed => (pc = "responded" /\ response.status = 502 /\ Len(outbound) = 1)

C3_Witness ==
  /\ upstream.kind = "response"
  /\ upstream.status_code = 400
  /\ response.status = 502
  /\ Len(outbound) = 1

\* the integer the claims call "the inbound priority coerced to an integer"
Coerced == int(priority_val)

Answered200 ==
  pc = "responded" /\ upstream.kind = "response" /\ upstream.status_code < 400

\* C4: an upstream answer below 400 gives the caller 200 with the body
\* {id: 0, appid: 0, title, message, priority}, priority being the coerced
\* inbound priority, or 0 when it does not coerce.
C4_SuccessEcho ==
  Answered200 =>
    /\ response.status = 200
    /\ response.body = [id |-> 0, appid |-> 0, title |-> title, message |-> message,
                        priority |-> IF Coerced.ok THEN Coerced.val ELSE 0]

\* C5: every request ends with status 200, 400 or 502.
C5_OnlyThreeStatuses ==
  pc = "responded" => response.status \in {200, 400, 502}

\* C6: the outbound call goes to the map's value for the request's token when
\* the token is a key of the map and to the default destination otherwise (a
\* missing token parameter is the empty token); no request is refused over
\* its token.
C6_TopicResolution ==
  LET token == IF request.hasToken THEN request.token ELSE <<>>
      map == config.TOKEN_TOPIC_MAP
      destination == IF \E k \in DOMAIN map : k = token THEN map[token]
                     ELSE config.DEFAULT_TOPIC
  IN /\ Sent => Call.url = config.NTFY_SERVER \o <<47>> \o destination
     /\ (BodyParsed /\ request.parse # "value" /\ ~(title = <<>> /\ message = <<>>)
         /\ encode(IF message # <<>> THEN message ELSE title).ok) => Sent

C6_Witness ==
  /\ Sent
  /\ ~request.hasToken
  /\ <<>> \in DOMAIN config.TOKEN_TOPIC_MAP
  /\ Call.url = config.NTFY_SERVER \o <<47>> \o TopE

C6_WitnessDefault ==
  /\ Sent
  /\ request.hasToken /\ request.token = TokZ
  /\ Call.url = config.NTFY_SERVER \o <<47>> \o TopD

\* inverse of the base64 alphabet
B64Index(c) ==
  IF c \in 65..90 THEN c - 65
  ELSE IF c \in 97..122 THEN c - 97 + 26
  ELSE IF c \in 48..57 THEN c - 48 + 52
  ELSE IF c = 43 THEN 62 ELSE 63

\* the bytes a padded base64 text stands for
RECURSIVE B64Decode(_)
B64Decode(t) ==
  IF Len(t) < 4 THEN <<>>
  ELSE LET a == B64Index(t[1])
           b == B64Index(t[2])
           c == B64Index(t[3])
           d == B64Index(t[4])
       IN (IF t[3] = 61 THEN <<a * 4 + (b \div 16)>>
           ELSE IF t[4] = 61 THEN <<a * 4 + (b \div 16), (b % 16) * 16 + (c \div 4)>>
           ELSE <<a * 4 + (b \div 16), (b % 16) * 16 + (c \div 4), (c % 4) * 64 + d>>)
          \o B64Decode(SubSeq(t, 5, Len(t)))

\* the text a UTF-8 byte sequence stands for
RECURSIVE Utf8Decode(_)
Utf8Decode(b) ==
  IF b = <<>> THEN <<>>
  ELSE IF b[1] < 128 THEN <<b[1]>> \o Utf8Decode(Tail(b))
  ELSE IF b[1] < 224 THEN
    <<(b[1] - 192) * 64 + (b[2] - 128)>> \o Utf8Decode(SubSeq(b, 3, Len(b)))
  ELSE IF b[1] < 240 THEN
    <<(b[1] - 224) * 4096 + (b[2] - 128) * 64 + (b[3] - 128)>>
    \o Utf8Decode(SubSeq(b, 4, Len(b)))
  ELSE
    <<(b[1] - 240) * 262144 + (b[2] - 128) * 4096 + (b[3] - 128) * 64 + (b[4] - 128)>>
    \o Utf8Decode(SubSeq(b, 5, Len(b)))

\* C7: an outbound call carries an Authorization header exactly when a username
\* is configured, and the header is then "Basic " followed by the base64 of
\* username:password.
C7_AuthIffUsername ==
  Sent =>
    LET h == Call.headers
    IN /\ ("Authorization" \in DOMAIN h) = (config.NTFY_USERNAME # <<>>)
       /\ "Authorization" \in DOMAIN h =>
            /\ SubSeq(h["Authorization"], 1, Len(TxtBasic)) = TxtBasic
            /\ Utf8Decode(B64Decode(SubSeq(h["Authorization"], Len(TxtBasic) + 1,
                                           Len(h["Authorization"]))))
                 = config.NTFY_USERNAME \o <<58>> \o config.NTFY_PASSWORD
            /\ Len(h["Authorization"]) % 4 = Len(TxtBasic) % 4

C7_Witness ==
  /\ Sent
  /\ config.NTFY_USERNAME # <<>>
  /\ config.NTFY_PASSWORD # <<>>
  /\ "Authorization" \in DOMAIN Call.headers

C7_WitnessNoUser ==
  /\ Sent
  /\ config.NTFY_USERNAME = <<>>
  /\ config.NTFY_PASSWORD # <<>>
  /\ "Authorization" \notin DOMAIN Call.headers

\* C8 as stated: the body of the outbound call is the normalized message.
C8_BodyIsMessage ==
  Sent => Utf8Decode(Call.data) = message

\* C8 amended: the body of the outbound call is the UTF-8 encoding of the
\* normalized message, or of the normalized title when the message is empty.
C8_BodyIsMessageOrTitle ==
  Sent =>
    /\ message # <<>> => Utf8Decode(Call.data) = message
    /\ message = <<>> => Utf8Decode(Call.data) = title
    /\ \A i \in 1..Len(Call.data) : Call.data[i] \in 0..255

C8_Witness ==
  /\ Sent
  /\ message = <<>>
  /\ title = TxtT
  /\ Call.data = <<84>>

C8_WitnessUtf8 ==
  /\ Sent
  /\ message = TxtAccent
  /\ Call.data = <<195, 169>>

\* h is s without its leading and trailing whitespace
IsStripOf(h, s) ==
  /\ \E i \in 0..Len(s) : \E j \in i..Len(s) :
       /\ h = SubSeq(s, i + 1, j)
       /\ \A k \in (1..i) \cup ((j + 1)..Len(s)) : IsSpace(s[k])
  /\ h # <<>> => (~IsSpace(h[1]) /\ ~IsSpace(h[Len(h)]))

\* C9 as stated: Priority and Tags are always sent, Title only for a non-empty
\* inbound title, and the Title header is prefix + title.
C9_TitleIsPrefixPlusTitle ==
  Sent =>
    LET h == Call.headers
    IN /\ {"Priority", "Tags"} \subseteq DOMAIN h
       /\ "Title" \in DOMAIN h => title # <<>>
       /\ title # <<>> => ("Title" \in DOMAIN h /\ h["Title"] = config.TITLE_PREFIX \o title)

\* C9 amended: Priority and Tags are always sent; the Title header is sent
\* exactly when prefix + title, stripped of leading and trailing whitespace,
\* is non-empty, and is that stripped text.
C9_TitleIsStrippedPrefixPlusTitle ==
  Sent =>
    LET h == Call.headers
        full == config.TITLE_PREFIX \o title
    IN /\ {"Priority", "Tags"} \subseteq DOMAIN h
       /\ "Title" \in DOMAIN h => (h["Title"] # <<>> /\ IsStripOf(h["Title"], full))
       /\ "Title" \notin DOMAIN h => IsStripOf(<<>>, full)

C9_Witness ==
  /\ Sent
  /\ config.TITLE_PREFIX = <<71, 32>>
  /\ title = TxtTpad
  /\ Call.headers["Title"] = <<71, 32, 32, 84>>

C9_WitnessNoTitle ==
  /\ Sent
  /\ title = TxtBlank
  /\ config.TITLE_PREFIX = <<>>
  /\ "Title" \notin DOMAIN Call.headers

\* C10: the Tags header is the default tag list, with ",extras" appended
\* exactly when the body is JSON and its extras member is a mapping.
C10_TagsMarkExtras ==
  Sent =>
    Call.headers["Tags"] =
      IF IsJson(request) /\ request.extras.k = "dict"
      THEN config.DEFAULT_TAGS \o TxtExtras
      ELSE config.DEFAULT_TAGS
====
